---- MODULE Spec2Model ----
(***************************************************************************)
(* A model of DataETL (src/DataETL.py): load_files, preprocess_data,      *)
(* create_database and run, over a small file system and one SQLite store. *)
(***************************************************************************)
EXTENDS Integers, Sequences, FiniteSets, TLC

VARIABLES
    directory,    \* the files found in self.directory (a set of file names)
    dataframes,   \* self.dataframes: sequence of [name, df]
    errors,       \* self.errors: sequence of [name, e]
    combined_df,  \* self.combined_df: None or <<df>>
    store,        \* the tables of the writable database file, by table name
    conns,        \* sqlite3 connections opened and not yet closed
    pc,           \* position of the caller inside run
    db_path,      \* argument of the current run call
    table_name,   \* argument of the current run call
    ret,          \* value returned by the last run call (NoRet: none)
    exc,          \* exception raised out of the last run call ("none": none)
    wrote,        \* rows written by the create_database call of this run
    writes,       \* successful to_sql calls so far, by table name
    runs          \* run calls so far

vars == <<directory, dataframes, errors, combined_df, store, conns, pc,
          db_path, table_name, ret, exc, wrote, writes, runs>>

\* ---------------------------------------------------------------- bounds
MaxRuns == 2

\* ---------------------------------------------------------------- cells
\* Every cell of a table is a record [k, t, off]; t is an hour of one day,
\* off a UTC offset in hours.
NaN == [k |-> "null", t |-> 0, off |-> 0]
NaT == [k |-> "NaT", t |-> 0, off |-> 0]
Num(v) == [k |-> "int", t |-> v, off |-> 0]
Bad == [k |-> "str", t |-> 0, off |-> 0]
Naive(h) == [k |-> "naive", t |-> h, off |-> 0]
Aware(h, o) == [k |-> "aware", t |-> h, off |-> o]
Utc(h) == [k |-> "utc", t |-> h, off |-> 0]

None == <<>>
NoRet == -1

\* ---------------------------------------------------------------- files
\* The files that may lie in a directory, with what a reader makes of each.
Files ==
    { [name |-> "a.csv", suffix |-> ".csv", readable |-> TRUE,
       columns |-> <<"DATETIME", "val">>,
       rows |-> << <<Aware(10, 0), Num(1)>> >>],
      [name |-> "b.csv", suffix |-> ".csv", readable |-> TRUE,
       columns |-> <<"datetime", "val">>,
       rows |-> << <<Naive(9), Num(2)>> >>],
      [name |-> "c.CSV", suffix |-> ".CSV", readable |-> TRUE,
       columns |-> <<"datetime", "val">>,
       rows |-> << <<Bad, Num(3)>>, <<Aware(11, 1), Num(4)>>, <<NaN, Num(6)>> >>],
      [name |-> "d.pq", suffix |-> ".pq", readable |-> FALSE,
       columns |-> <<>>, rows |-> <<>>],
      [name |-> "e.txt", suffix |-> ".txt", readable |-> TRUE,
       columns |-> <<"datetime">>, rows |-> << <<Naive(8)>> >>],
      [name |-> "f.parquet", suffix |-> ".parquet", readable |-> TRUE,
       columns |-> <<"val">>, rows |-> << <<Num(5)>> >>],
      [name |-> "g.PQ", suffix |-> ".PQ", readable |-> TRUE,
       columns |-> <<"datetime", "val">>, rows |-> << <<Bad, Num(7)>> >>],
      [name |-> "h.csv", suffix |-> ".csv", readable |-> TRUE,
       columns |-> <<"datetime", "val">>,
       rows |-> << <<Aware(9, 1), Num(8)>>, <<Naive(8), Num(9)>> >>] }

FileNames == {f.name : f \in Files}
File(n) == CHOOSE f \in Files : f.name = n

\* The directories an instance may be pointed at.
Directories ==
    { {},                        \* nothing to load
      {"a.csv"},                 \* the alternate column name alone
      {"a.csv", "b.csv"},        \* both column names
      {"b.csv", "c.CSV"},        \* unparseable and missing values
      {"h.csv"},                 \* two rows at one instant
      {"c.CSV", "d.pq"},         \* one file that cannot be parsed
      {"d.pq", "e.txt"},         \* nothing that can be loaded
      {"b.csv", "e.txt"},        \* an extension that is not recognised
      {"f.parquet"},             \* no timestamp column
      {"g.PQ"} }                 \* no row with a timestamp

DbPaths == {"ok.db", "locked.db", "nodir/x.db"}
TableNames == {"events"}

\* ---------------------------------------------------------------- helpers
Range(s) == {s[i] : i \in 1..Len(s)}

\* position of the first x in s, 0 when there is none
Find(s, x) == IF x \in Range(s) THEN CHOOSE i \in 1..Len(s) :
                                        s[i] = x /\ \A j \in 1..(i-1) : s[j] # x
              ELSE 0

\* str.lower() on the suffixes that occur
Lower(s) == CASE s = ".CSV" -> ".csv"
              [] s = ".PQ" -> ".pq"
              [] s = ".PARQUET" -> ".parquet"
              [] OTHER -> s

\* every order in which glob("*") may yield the files of a directory
RECURSIVE Orders(_)
Orders(S) == IF S = {} THEN {<<>>}
             ELSE UNION {{<<n>> \o rest : rest \in Orders(S \ {n})} : n \in S}

\* ---------------------------------------------------------------- load_files
RangeIndex(n) == [i \in 1..n |-> i - 1]

\* what pd.read_csv / pd.read_parquet returns for a readable file
ReadFile(n) == [columns |-> File(n).columns,
                rows |-> File(n).rows,
                index |-> RangeIndex(Len(File(n).rows))]

IsCsv(n) == Lower(File(n).suffix) = ".csv"
IsParquet(n) == Lower(File(n).suffix) \in {".parquet", ".pq"}

\* the loop as it would be with the try around it instead of inside it: the
\* first failure ends it
RECURSIVE LoadLoopAbort(_, _, _)
LoadLoopAbort(order, dfs, errs) ==
    IF order = <<>> THEN [dfs |-> dfs, errs |-> errs]
    ELSE LET n == Head(order) IN
         IF Lower(File(n).suffix) \in {".csv", ".parquet", ".pq"}
         THEN IF File(n).readable
              THEN LoadLoopAbort(Tail(order),
                                 Append(dfs, [name |-> n, df |-> ReadFile(n)]), errs)
              ELSE [dfs |-> dfs, errs |-> Append(errs, [name |-> n, e |-> "ParserError"])]
         ELSE LoadLoopAbort(Tail(order), dfs, errs)

\* the body of the for loop, over the files in the order glob yields them:
\* the lists [dfs, errs] after the loop
RECURSIVE LoadLoop(_, _, _)
LoadLoop(order, dfs, errs) ==
    IF order = <<>> THEN [dfs |-> dfs, errs |-> errs]
    ELSE LET n == Head(order) IN
         IF IsCsv(n) \/ IsParquet(n)
         THEN IF File(n).readable
              THEN LoadLoop(Tail(order),
                            Append(dfs, [name |-> n, df |-> ReadFile(n)]), errs)
              ELSE LoadLoop(Tail(order), dfs,
                            Append(errs, [name |-> n, e |-> "ParserError"]))
         ELSE LoadLoop(Tail(order), dfs, errs)

\* ---------------------------------------------------------------- preprocess_data
\* the columns of pd.concat: the union, in order of first appearance
RECURSIVE UnionColumns(_)
UnionColumns(dfs) ==
    IF dfs = <<>> THEN <<>>
    ELSE LET before == UnionColumns(SubSeq(dfs, 1, Len(dfs) - 1))
             last == dfs[Len(dfs)].columns
         IN before \o SelectSeq(last, LAMBDA c : c \notin Range(before))

\* a row of df laid out on the columns cols, NaN where df has no such column
Reindex(df, row, cols) ==
    [j \in 1..Len(cols) |->
        IF Find(df.columns, cols[j]) = 0 THEN NaN
        ELSE row[Find(df.columns, cols[j])]]

RECURSIVE ConcatRows(_, _)
ConcatRows(dfs, cols) ==
    IF dfs = <<>> THEN <<>>
    ELSE LET df == Head(dfs) IN
         [i \in 1..Len(df.rows) |-> Reindex(df, df.rows[i], cols)]
             \o ConcatRows(Tail(dfs), cols)

\* pd.concat(all_dfs, ignore_index=True)
concat(dfs) ==
    LET cols == UnionColumns(dfs)
        rows == ConcatRows(dfs, cols)
    IN [columns |-> cols, rows |-> rows, index |-> RangeIndex(Len(rows))]

\* df.rename(columns={old: new}, inplace=True)
rename(df, old, new) ==
    [df EXCEPT !.columns = [j \in 1..Len(df.columns) |->
                               IF df.columns[j] = old THEN new ELSE df.columns[j]]]

\* lines 50-51
Standardize(df) ==
    IF "DATETIME" \in Range(df.columns) THEN rename(df, "DATETIME", "datetime")
    ELSE df

\* the positions of the columns labelled c
Locs(df, c) == {j \in 1..Len(df.columns) : df.columns[j] = c}

\* pd.to_datetime(value, errors='coerce', utc=True) on one value; each value of
\* a column is parsed on its own
to_datetime(v) ==
    CASE v.k = "naive" -> Utc(v.t)
      [] v.k = "aware" -> Utc(v.t - v.off)
      [] v.k = "utc" -> v
      [] OTHER -> NaT

\* df[c] = pd.to_datetime(df[c], errors='coerce', utc=True), c at position j
Coerce(df, j) ==
    [df EXCEPT !.rows = [i \in 1..Len(df.rows) |->
                            [df.rows[i] EXCEPT ![j] = to_datetime(df.rows[i][j])]]]

IsNull(v) == v.k \in {"null", "NaT"}

\* the positions from i on, in order, of the rows of df that are not null at
\* column j
RECURSIVE NotNull(_, _, _)
NotNull(df, j, i) ==
    IF i > Len(df.rows) THEN <<>>
    ELSE (IF IsNull(df.rows[i][j]) THEN <<>> ELSE <<i>>) \o NotNull(df, j, i + 1)

\* the rows of df at the positions p, in that order, each with its index label
Take(df, p) ==
    [columns |-> df.columns,
     rows |-> [i \in 1..Len(p) |-> df.rows[p[i]]],
     index |-> [i \in 1..Len(p) |-> df.index[p[i]]]]

\* dropna as it would be without inplace=True: the table is left as it was
dropna_not_inplace(df, j) == df

\* df.dropna(subset=[c], inplace=True), c at position j
dropna(df, j) ==
    Take(df, NotNull(df, j, 1))

\* the orders a sort by the key at column j may leave the positions S in:
\* ascending, rows with equal keys in any order (kind='quicksort' is not stable)
RECURSIVE SortOrders(_, _, _)
SortOrders(df, j, S) ==
    IF S = {} THEN {<<>>}
    ELSE LET least == {i \in S : \A m \in S : df.rows[i][j].t <= df.rows[m][j].t}
         IN UNION {{<<i>> \o rest : rest \in SortOrders(df, j, S \ {i})} : i \in least}

\* the results df.sort_values(c, inplace=True) may leave, c at position j
sort_values(df, j) ==
    {Take(df, p) : p \in SortOrders(df, j, 1..Len(df.rows))}

\* self.combined_df after lines 47-51
Merged(dfs) == Standardize(concat([i \in 1..Len(dfs) |-> dfs[i].df]))

\* how lines 55-57 end on the merged table m: "KeyError" when no column is
\* labelled datetime, "ValueError" when several are (m['datetime'] is then a
\* DataFrame, which to_datetime cannot assemble a date from), "none" otherwise
Raises(m) ==
    CASE Locs(m, "datetime") = {} -> "KeyError"
      [] Cardinality(Locs(m, "datetime")) > 1 -> "ValueError"
      [] OTHER -> "none"

TsCol(m) == CHOOSE j \in Locs(m, "datetime") : TRUE

\* the tables lines 55-57 may leave in self.combined_df
Normalized(m) == sort_values(dropna(Coerce(m, TsCol(m)), TsCol(m)), TsCol(m))

\* preprocess_data as it would be without the guard of line 41
NeverSkips(dfs) == FALSE

\* line 41: not self.dataframes
NoDataframes(dfs) == dfs = <<>>

\* lines 55-57 as they would be under a guard "if 'datetime' in columns"
OutcomesGuarded(m) ==
    IF Locs(m, "datetime") = {} THEN {[exc |-> "none", df |-> m]}
    ELSE IF Raises(m) # "none" THEN {[exc |-> Raises(m), df |-> m]}
    ELSE {[exc |-> "none", df |-> d] : d \in Normalized(m)}

\* the ways lines 45-59 may end on the merged table m: the exception raised (or
\* "none") and the table left in self.combined_df
Outcomes(m) ==
    IF Raises(m) # "none" THEN {[exc |-> Raises(m), df |-> m]}
    ELSE {[exc |-> "none", df |-> d] : d \in Normalized(m)}

\* ---------------------------------------------------------------- create_database
Rows(c) == IF c = None THEN <<>> ELSE c[1].rows

\* line 63: self.combined_df is None or self.combined_df.empty
NoData(c) == c = None \/ c[1].rows = <<>>

\* what sqlite3.connect(path) and the write inside the with block come to
Connects(path) == path \in {"ok.db", "locked.db"}
Writable(path) == path = "ok.db"

\* to_sql as it would be with if_exists='append'
to_sql_append(old, df) ==
    IF old = None THEN <<[columns |-> df.columns, rows |-> df.rows]>>
    ELSE <<[columns |-> old[1].columns, rows |-> old[1].rows \o df.rows]>>

\* the table df.to_sql(name, conn, if_exists='replace', index=False) leaves in
\* place of the table old
to_sql(old, df) == <<[columns |-> df.columns, rows |-> df.rows]>>

\* line 80
RunResult(c) == IF c # None THEN Len(c[1].rows) ELSE 0

\* ---------------------------------------------------------------- the program
Init ==
    /\ directory \in Directories
    /\ dataframes = <<>>
    /\ errors = <<>>
    /\ combined_df = None
    /\ store = [t \in TableNames |-> None]
    /\ conns = 0
    /\ pc = "idle"
    /\ db_path = ""
    /\ table_name = ""
    /\ ret = NoRet
    /\ exc = "none"
    /\ wrote = 0
    /\ writes = [t \in TableNames |-> 0]
    /\ runs = 0

\* DataETL(directory): a new instance, over the same store
NewInstance ==
    /\ pc \in {"idle", "done"}
    /\ directory' \in Directories
    /\ dataframes' = <<>>
    /\ errors' = <<>>
    /\ combined_df' = None
    /\ pc' = "idle"
    /\ db_path' = ""
    /\ table_name' = ""
    /\ ret' = NoRet
    /\ exc' = "none"
    /\ wrote' = 0
    /\ UNCHANGED <<store, conns, writes, runs>>

\* run(db_path, table_name) up to the return of load_files
load_files ==
    /\ pc \in {"idle", "done"}
    /\ runs < MaxRuns
    /\ \E p \in DbPaths, t \in TableNames, order \in Orders(directory) :
          LET r == LoadLoop(order, dataframes, errors) IN
          /\ dataframes' = r.dfs
          /\ errors' = r.errs
          /\ db_path' = p
          /\ table_name' = t
    /\ pc' = "loaded"
    /\ ret' = NoRet
    /\ exc' = "none"
    /\ wrote' = 0
    /\ runs' = runs + 1
    /\ UNCHANGED <<directory, combined_df, store, conns, writes>>

\* preprocess_data; an exception it raises leaves run as well
preprocess_data ==
    /\ pc = "loaded"
    /\ IF NoDataframes(dataframes)
       THEN /\ pc' = "preprocessed"
            /\ UNCHANGED <<combined_df, exc>>
       ELSE \E o \in Outcomes(Merged(dataframes)) :
               /\ combined_df' = <<o.df>>
               /\ exc' = o.exc
               /\ pc' = IF o.exc = "none" THEN "preprocessed" ELSE "done"
    /\ UNCHANGED <<directory, dataframes, errors, store, conns, db_path,
                   table_name, ret, wrote, writes, runs>>

\* create_database(db_path, table_name)
create_database ==
    /\ pc = "preprocessed"
    /\ pc' = "created"
    /\ IF NoData(combined_df)
       THEN UNCHANGED <<store, conns, wrote, writes>>
       ELSE /\ conns' = IF Connects(db_path) THEN conns + 1 ELSE conns
            /\ IF Connects(db_path) /\ Writable(db_path)
               THEN /\ store' = [store EXCEPT ![table_name] =
                                    to_sql(store[table_name], combined_df[1])]
                    /\ wrote' = Len(combined_df[1].rows)
                    /\ writes' = [writes EXCEPT ![table_name] = @ + 1]
               ELSE UNCHANGED <<store, wrote, writes>>
    /\ UNCHANGED <<directory, dataframes, errors, combined_df, db_path,
                   table_name, ret, exc, runs>>

\* line 80: run returns
run ==
    /\ pc = "created"
    /\ pc' = "done"
    /\ ret' = RunResult(combined_df)
    /\ UNCHANGED <<directory, dataframes, errors, combined_df, store, conns,
                   db_path, table_name, exc, wrote, writes, runs>>

\* the garbage collector finalizes the connections no name refers to any more;
\* nothing else in the program closes one
Collect ==
    /\ conns > 0
    /\ conns' = 0
    /\ UNCHANGED <<directory, dataframes, errors, combined_df, store, pc,
                   db_path, table_name, ret, exc, wrote, writes, runs>>

Next ==
    \/ NewInstance
    \/ load_files
    \/ preprocess_data
    \/ create_database
    \/ run
    \/ Collect

Spec == Init /\ [][Next]_vars

\* ---------------------------------------------------------------- properties
\* preprocess_data of the current run has returned without raising
Returned == pc \in {"preprocessed", "created"} \/ (pc = "done" /\ exc = "none")

\* ... and there was something to preprocess
Preprocessed == Returned /\ dataframes # <<>>

\* a value to_datetime can make an instant of, and that instant in UTC
Parseable(v) == v.k \in {"naive", "aware", "utc"}
Instant(v) == v.t - v.off

\* the timestamp of row i of df
Ts(df, i) == df.rows[i][TsCol(df)]

\* C1: after preprocess_data the rows are in non-decreasing order of datetime,
\* and rows with equal datetime are in the order they had in the merged table
\* (the order of their index labels).
C1_StableOrder ==
    Preprocessed =>
        LET df == combined_df[1] IN
        \A i, k \in 1..Len(df.rows) :
            i < k => /\ Ts(df, i).t <= Ts(df, k).t
                     /\ Ts(df, i).t = Ts(df, k).t => df.index[i] < df.index[k]

\* some loaded table has a DATETIME column and another a datetime column
Mixed ==
    \E i, k \in 1..Len(dataframes) :
        /\ "DATETIME" \in Range(dataframes[i].df.columns)
        /\ "datetime" \in Range(dataframes[k].df.columns)

\* the rows of the loaded tables, all of them
LoadedRows ==
    Len(ConcatRows([i \in 1..Len(dataframes) |-> dataframes[i].df], <<>>))

\* C2: when the loaded tables mix DATETIME and datetime, preprocess_data
\* completes and leaves one table with the rows of both tables, a UTC timestamp
\* in a single datetime column, sorted ascending.
C2_MixedNamesMerge ==
    (Mixed /\ pc \in {"preprocessed", "created", "done"}) =>
        /\ exc = "none"
        /\ combined_df # None
        /\ Cardinality(Locs(combined_df[1], "datetime")) = 1
        /\ "DATETIME" \notin Range(combined_df[1].columns)
        /\ \A i \in 1..Len(combined_df[1].rows) : Ts(combined_df[1], i).k = "utc"
        /\ \A i, k \in 1..Len(combined_df[1].rows) :
               i < k => Ts(combined_df[1], i).t <= Ts(combined_df[1], k).t
        /\ Len(combined_df[1].rows) = LoadedRows

\* C3: preprocess_data drops exactly the rows of the merged table whose
\* datetime was null or unparseable; every row that is left carries the UTC
\* instant of its original value.
C3_DropCorrect ==
    Preprocessed =>
        LET m == Merged(dataframes)
            df == combined_df[1]
            good == {i \in 1..Len(m.rows) : Parseable(Ts(m, i))}
            bad == {i \in 1..Len(m.rows) : ~Parseable(Ts(m, i))}
        IN /\ Range(df.index) = {i - 1 : i \in good}
           /\ Len(df.rows) = Cardinality(good)
           /\ Len(m.rows) - Len(df.rows) = Cardinality(bad)
           /\ \A i \in 1..Len(df.rows) :
                 /\ Ts(df, i) = Utc(Instant(Ts(m, df.index[i] + 1)))
                 /\ [df.rows[i] EXCEPT ![TsCol(df)] = NaN]
                        = [m.rows[df.index[i] + 1] EXCEPT ![TsCol(m)] = NaN]

C3_Witness ==
    /\ Preprocessed
    /\ Len(combined_df[1].rows) > 0
    /\ Len(combined_df[1].rows) < Len(Merged(dataframes).rows)
    /\ \E i \in 1..Len(Merged(dataframes).rows) :
           Ts(Merged(dataframes), i).off # 0

\* C4: run returns the number of rows that call wrote to the store, 0 when it
\* wrote nothing.
C4_ReturnsRowsWritten ==
    (pc = "done" /\ exc = "none") => ret = wrote

\* the number of rows a first run of a new instance over the directory d leaves
FreshCount(d) ==
    LET r == LoadLoop(CHOOSE o \in Orders(d) : TRUE, <<>>, <<>>)
        m == Merged(r.dfs)
    IN IF r.dfs = <<>> \/ Raises(m) # "none" THEN 0
       ELSE Cardinality({i \in 1..Len(m.rows) : Parseable(Ts(m, i))})

\* C5: the count run returns, and the table it writes, reflect only the files
\* in the directory at that call: a second run over an unchanged directory
\* gives what the first gave.
C5_RunFromScratch ==
    (pc = "done" /\ exc = "none") =>
        /\ ret = FreshCount(directory)
        /\ wrote > 0 => Len(store[table_name][1].rows) = FreshCount(directory)

\* tables were loaded and none has a datetime or a DATETIME column
NoTimestampColumn ==
    /\ dataframes # <<>>
    /\ \A i \in 1..Len(dataframes) :
          Range(dataframes[i].df.columns) \cap {"datetime", "DATETIME"} = {}

\* C6: when the merged table has neither a datetime nor a DATETIME column,
\* preprocess_data raises, the exception leaves run, nothing is written by that
\* run; no table without a datetime column is ever in the store.
C6_MissingColumnFails ==
    /\ (NoTimestampColumn /\ pc \in {"preprocessed", "created", "done"}) =>
           /\ pc = "done"
           /\ exc # "none"
           /\ ret = NoRet
           /\ wrote = 0
    /\ \A t \in TableNames :
           store[t] # None => "datetime" \in Range(store[t][1].columns)

C6_Witness ==
    NoTimestampColumn /\ pc = "done" /\ exc = "KeyError"

\* C7 as stated: once the table exists, a further create_database on the same
\* location and table name leaves exactly the rows of the dataset it was given
\* (none, when that dataset is empty or absent).
C7_SecondDatasetOnly ==
    (pc = "created" /\ Writable(db_path) /\ store[table_name] # None) =>
        store[table_name][1].rows = Rows(combined_df)

\* C7: a create_database that writes leaves exactly the columns and rows of its
\* dataset in the table, whatever the table held before.
C7_ReplaceOnWrite ==
    (pc = "created" /\ wrote > 0) =>
        store[table_name] = <<[columns |-> combined_df[1].columns,
                               rows |-> combined_df[1].rows]>>

C7_Witness ==
    /\ pc = "created"
    /\ wrote > 0
    /\ writes[table_name] >= 2
    /\ store[table_name][1].rows = combined_df[1].rows

\* how often the file name n is named in the list l of pairs
RECURSIVE Count(_, _)
Count(l, n) ==
    IF l = <<>> THEN 0
    ELSE (IF Head(l).name = n THEN 1 ELSE 0) + Count(Tail(l), n)

Recognised(n) == File(n).suffix \in {".csv", ".CSV", ".parquet", ".pq", ".PQ"}

\* C8: load_files adds every .csv, .parquet or .pq file of the directory, in
\* any case of the letters, exactly once, to exactly one of the two lists: to
\* dataframes when it can be read, to errors when it cannot, the other files
\* after it still being loaded; a file with any other extension is in neither.
C8_EachFileOnce ==
    [][(pc # "loaded" /\ pc' = "loaded") =>
          \A n \in FileNames :
             LET loaded == Count(dataframes', n) - Count(dataframes, n)
                 failed == Count(errors', n) - Count(errors, n)
             IN IF n \in directory /\ Recognised(n)
                THEN /\ loaded = (IF File(n).readable THEN 1 ELSE 0)
                     /\ failed = (IF File(n).readable THEN 0 ELSE 1)
                     /\ (Count(dataframes', n) > 0) # (Count(errors', n) > 0)
                ELSE /\ loaded = 0
                     /\ failed = 0
                     /\ ~Recognised(n) =>
                            Count(dataframes', n) = 0 /\ Count(errors', n) = 0]_vars

C8_Witness ==
    /\ pc = "loaded"
    /\ directory = {"c.CSV", "d.pq"}
    /\ Count(errors, "d.pq") = 1
    /\ Count(dataframes, "c.CSV") = 1

\* C9: while no table is loaded, combined_df stays absent, nothing is raised,
\* the store is left as it is and no connection is opened; run returns 0.
C9_NothingLoaded ==
    [][dataframes' = <<>> =>
          /\ combined_df' = None
          /\ exc' = "none"
          /\ store' = store
          /\ conns' <= conns
          /\ wrote' = 0
          /\ pc' = "done" => ret' = 0]_vars

C9_Witness ==
    /\ pc = "done"
    /\ dataframes = <<>>
    /\ errors # <<>>
    /\ combined_df = None
    /\ ret = 0

\* C10: no connection is open once create_database has returned.
C10_ConnectionReleased ==
    pc = "created" => conns = 0

====
